---- MODULE Spec2Model ----
(***************************************************************************)
(* treetex (docs/merkletree/treetex/main.go): a binary that annotates the  *)
(* nodes of a Merkle tree (inclusion proof, inclusion path, ranges) and    *)
(* prints the tree as nested Forest node blocks.                           *)
(*                                                                         *)
(* The model follows main() statement by statement.  The call stack of     *)
(* the recursive renderer and the deferred calls are explicit (stack,      *)
(* defers); every fmt.Print/Printf call appends one item to out.           *)
(***************************************************************************)
EXTENDS Integers, Sequences, FiniteSets, TLC

(***************************************************************************)
(* Bounds of the explored inputs.                                          *)
(***************************************************************************)
\* --tree_size is drawn from 0..MaxSize, --inclusion from -1..MaxSize.
MaxSize == 8
\* --megamode_threshold is drawn from 0..MaxMega.
MaxMega == 3
\* --leaf_data holds 0 (flag unset) to MaxLeafData comma separated labels.
MaxLeafData == 2

\* Maximum number of ranges to allow.
maxRanges == 3

(***************************************************************************)
(* The --ranges flag, as the list of its "L:R" pairs (<<>> is the empty    *)
(* string).  Every pair is well formed text: two unsigned integers.        *)
(***************************************************************************)
RangePool == {<<0, 2>>, <<1, 3>>, <<2, 5>>, <<3, 1>>}

RangeLists ==
    {<<>>}
    \cup {<<a>> : a \in RangePool}
    \cup {<<a, b>> : a \in RangePool, b \in RangePool}
    \cup {<<a, b, c>> : a \in RangePool, b \in RangePool, c \in RangePool}
    \cup {<<<<0, 2>>, <<0, 2>>, <<0, 2>>, <<0, 2>>>>}

VARIABLES
    treeSize,    \* *treeSize
    leafData,    \* number of labels in *leafData (0: the flag is empty)
    inclusion,   \* *inclusion
    megaMode,    \* *megaMode
    ranges,      \* *ranges, as a list of <<L, R>>
    height,      \* main's local height
    nInfo,       \* the nInfo map: a function whose domain is the keys present
    pc,          \* position of main
    ids,         \* renderTree: the roots still to visit
    nroots,      \* renderTree: len(ids)
    rprefix,     \* renderTree: len(prefix)
    defers,      \* renderTree: deferred closes, last deferred first
    stack,       \* pending calls and deferred closes below renderTree's frame
    out          \* what has been printed to stdout, one item per Print call

vars == <<treeSize, leafData, inclusion, megaMode, ranges, height, nInfo, pc,
          ids, nroots, rprefix, defers, stack, out>>

flags == <<treeSize, leafData, inclusion, megaMode, ranges>>

(***************************************************************************)
(* Bit arithmetic (math/bits) on naturals.                                 *)
(***************************************************************************)
RECURSIVE Pow2(_)
Pow2(n) == IF n = 0 THEN 1 ELSE 2 * Pow2(n - 1)

RECURSIVE Len64(_)
Len64(x) == IF x = 0 THEN 0 ELSE 1 + Len64(x \div 2)

RECURSIVE TrailingZeros64(_)
TrailingZeros64(x) == IF x % 2 = 1 THEN 0 ELSE 1 + TrailingZeros64(x \div 2)

RECURSIVE Xor(_, _)
Xor(a, b) ==
    IF a = 0 THEN b
    ELSE IF b = 0 THEN a
    ELSE ((a + b) % 2) + 2 * Xor(a \div 2, b \div 2)

Reverse(s) == [i \in 1..Len(s) |-> s[Len(s) + 1 - i]]

(***************************************************************************)
(* compact.NodeID: <<level, index>>.                                       *)
(***************************************************************************)
NewNodeID(level, index) == <<level, index>>
Level(id) == id[1]
Index(id) == id[2]
Parent(id) == NewNodeID(Level(id) + 1, Index(id) \div 2)
Sibling(id) ==
    NewNodeID(Level(id), IF Index(id) % 2 = 0 THEN Index(id) + 1 ELSE Index(id) - 1)
\* Coverage returns the [begin, end) range of leaves covered by the node.
Coverage(id) ==
    <<Index(id) * Pow2(Level(id)), (Index(id) + 1) * Pow2(Level(id))>>

(***************************************************************************)
(* compact.Decompose and compact.RangeNodes.                               *)
(***************************************************************************)
Decompose(begin, end) ==
    IF begin = 0 THEN <<0, end>>
    ELSE LET xbegin == begin - 1
             d      == Len64(Xor(xbegin, end)) - 1
             mask   == Pow2(d)
         IN  <<(mask - 1) - (xbegin % mask), end % mask>>

RECURSIVE LeftBorder(_, _)
LeftBorder(left, pos) ==
    IF left = 0 THEN <<>>
    ELSE LET level == TrailingZeros64(left)
             bit   == Pow2(level)
         IN  <<NewNodeID(level, pos \div bit)>> \o LeftBorder(left - bit, pos + bit)

RECURSIVE RightBorder(_, _)
RightBorder(right, pos) ==
    IF right = 0 THEN <<>>
    ELSE LET level == Len64(right) - 1
             bit   == Pow2(level)
         IN  <<NewNodeID(level, pos \div bit)>> \o RightBorder(right - bit, pos + bit)

RangeNodes(begin, end) ==
    LET lr == Decompose(begin, end)
    IN  LeftBorder(lr[1], begin) \o RightBorder(lr[2], begin + lr[1])

(***************************************************************************)
(* proof.Inclusion: the node list of the inclusion proof of leaf index in  *)
(* a tree of the given size, and its ephemeral span [begin, end).          *)
(***************************************************************************)
RECURSIVE Siblings(_, _)
Siblings(node, forkLevel) ==
    IF Level(node) < forkLevel
    THEN <<Sibling(node)>> \o Siblings(Parent(node), forkLevel)
    ELSE <<>>

ProofNodes(index, level, size) ==
    LET inner == Len64(Xor(index, size \div Pow2(level))) - 1
        fork  == NewNodeID(level + inner, index \div Pow2(inner))
        cov   == Coverage(fork)
        node  == NewNodeID(level, index)
        first == <<node>> \o Siblings(node, Level(fork))
        right == Reverse(RangeNodes(cov[2], size))
        left  == Reverse(RangeNodes(0, cov[1]))
        len1  == Len(first)
        len2  == len1 + Len(right)
    IN  [IDs   |-> first \o right \o left,
         begin |-> IF len1 >= len2 THEN 0 ELSE len1,
         end   |-> IF len1 >= len2 THEN 0 ELSE len2]

SkipFirst(n) ==
    [IDs   |-> Tail(n.IDs),
     begin |-> IF n.begin < n.end THEN n.begin - 1 ELSE n.begin,
     end   |-> IF n.begin < n.end THEN n.end - 1 ELSE n.end]

\* err is TRUE when the index is out of bounds for the tree size.
Inclusion(index, size) ==
    IF index >= size
    THEN [err |-> TRUE, IDs |-> <<>>, begin |-> 0, end |-> 0]
    ELSE LET n == SkipFirst(ProofNodes(index, 0, size))
         IN  [err |-> FALSE, IDs |-> n.IDs, begin |-> n.begin, end |-> n.end]

(***************************************************************************)
(* nodeInfo and the nInfo map.                                             *)
(***************************************************************************)
\* The zero value of nodeInfo.
ZeroInfo ==
    [proof |-> FALSE, incPath |-> FALSE, target |-> FALSE, perfectRoot |-> FALSE,
     ephemeral |-> FALSE, leaf |-> FALSE,
     dataRangeIndices |-> <<>>, rangeIndices |-> <<>>]

\* nInfo[id]: an empty nodeInfo if id is not found.
Get(m, id) == IF id \in DOMAIN m THEN m[id] ELSE ZeroInfo

\* modifyNodeInfo applies f to the nodeInfo associated with node id and
\* stores the result; fn is f applied to Get(m, id).
modifyNodeInfo(m, id, fn) ==
    [k \in DOMAIN m \cup {id} |-> IF k = id THEN fn ELSE m[k]]

(***************************************************************************)
(* nodeInfo.String: the list of Forest attributes of a node.  An attribute *)
(* is <<text, colour, n>>: "fill=range1!50" is <<"fill", "range", 1>>,     *)
(* "left color=target0!50" is <<"left color", "target", 0>>, "fill=proof"  *)
(* is <<"fill", "proof", None>>; the fixed texts carry no colour.          *)
(***************************************************************************)
None == 0 - 1

Plain(text) == <<text, "", None>>

\* Faulty variant of BandPos: positions read from left to right.
BandPosLeftToRight(i) == <<"left color", "middle color", "right color">>[i]
\* []string{"left", "right", "middle"}[i], i counted from 1 here.
BandPos(i) == <<"left color", "right color", "middle color">>[i]

\* Faulty variant of Bands: two entries are not shaded.
BandsOverTwo(palette, indices) ==
    IF Len(indices) > 2
    THEN [i \in 1..Len(indices) |-> <<BandPos(i), palette, indices[i]>>]
    ELSE <<>>
Bands(palette, indices) ==
    IF Len(indices) > 1
    THEN [i \in 1..Len(indices) |-> <<BandPos(i), palette, indices[i]>>]
    ELSE <<>>

\* Faulty variant of FillOf: the proof colour is chosen after the range colour.
FillOfProofLast(n) ==
    LET f0 == <<"white", None>>
        f1 == IF n.leaf
              THEN (IF Len(n.dataRangeIndices) = 1
                    THEN <<"target", n.dataRangeIndices[1]>> ELSE f0)
              ELSE (IF Len(n.rangeIndices) = 1
                    THEN <<"range", n.rangeIndices[1]>> ELSE f0)
        f2 == IF n.proof
              THEN (IF n.ephemeral THEN <<"proof_ephemeral", None>>
                                   ELSE <<"proof", None>>)
              ELSE f1
        f3 == IF n.target THEN <<"target", None>> ELSE f2
        f4 == IF n.incPath THEN <<"target_path", None>> ELSE f3
    IN  f4
\* Which colour to fill with.
FillOf(n) ==
    LET f0 == <<"white", None>>
        f1 == IF n.proof
              THEN (IF n.ephemeral THEN <<"proof_ephemeral", None>>
                                   ELSE <<"proof", None>>)
              ELSE f0
        f2 == IF n.leaf
              THEN (IF Len(n.dataRangeIndices) = 1
                    THEN <<"target", n.dataRangeIndices[1]>> ELSE f1)
              ELSE (IF Len(n.rangeIndices) = 1
                    THEN <<"range", n.rangeIndices[1]>> ELSE f1)
        f3 == IF n.target THEN <<"target", None>> ELSE f2
        f4 == IF n.incPath THEN <<"target_path", None>> ELSE f3
    IN  f4

String(n) ==
    (IF n.perfectRoot THEN <<Plain("attrPerfectRoot")>> ELSE <<>>)
    \o (IF n.leaf THEN Bands("target", n.dataRangeIndices)
                  ELSE Bands("range", n.rangeIndices))
    \o <<<<"fill", FillOf(n)[1], FillOf(n)[2]>>>>
    \o <<IF ~n.ephemeral THEN Plain("draw") ELSE Plain("attrEphemeralNode")>>
    \o <<IF ~n.leaf THEN Plain("circle, minimum size=3em, align=center")
                    ELSE Plain("minimum size=1.5em, align=center, base=bottom")>>

(***************************************************************************)
(* What is printed.  One item per fmt.Print/Printf call: kind names the    *)
(* format string, prefix is len(prefix), id the node whose text is         *)
(* printed, info the nodeInfo whose String() is printed as attr, aux the   *)
(* remaining %d arguments.                                                 *)
(***************************************************************************)
NoID == <<None, None>>

Item(kind, prefix, id, info, attr, aux) ==
    [kind |-> kind, prefix |-> prefix, id |-> id, info |-> info,
     attr |-> attr, aux |-> aux]

TextItem(kind, prefix) == Item(kind, prefix, NoID, ZeroInfo, <<>>, <<>>)

NodeItem(kind, prefix, id, info, aux) ==
    Item(kind, prefix, id, info, String(info), aux)

(***************************************************************************)
(* perfectMega renders a large perfect subtree as a single entity: the     *)
(* block, the prefix, the hidden nodes for tiers Level-2 .. 1 and, on      *)
(* return, their deferred closes.                                          *)
(***************************************************************************)
\* Faulty variant of HiddenTiers: one hidden node per level below the root.
HiddenTiersPerLevel(id) == IF Level(id) - 1 > 0 THEN Level(id) - 1 ELSE 0
HiddenTiers(id) == IF Level(id) - 2 > 0 THEN Level(id) - 2 ELSE 0

perfectMega(prefix, id, size) ==
    LET cov == Coverage(id)
        n   == HiddenTiers(id)
    IN  <<Item("mega", prefix, id, ZeroInfo, <<>>,
               <<cov[1], cov[2], cov[2] - cov[1], size>>)>>
        \o <<TextItem("indent", prefix)>>
        \o [k \in 1..n |-> Item("hidden", 0, NoID, ZeroInfo, <<>>, <<Level(id) - 1 - k>>)]
        \o [k \in 1..n |-> TextItem("hiddenClose", 0)]

(***************************************************************************)
(* drawLeaf emits a leaf: the leaf node of the Merkle tree and then a      *)
(* child node representing the leaf data itself.                           *)
(***************************************************************************)
\* Faulty variant of LeafHashInfo: incPath is kept on a leaf in a range.
LeafHashInfoKeepPath(a) == a
LeafHashInfo(a) ==
    IF Len(a.dataRangeIndices) > 0 THEN [a EXCEPT !.incPath = FALSE] ELSE a

LeafDataInfo(a) ==
    [a EXCEPT !.leaf = TRUE, !.proof = FALSE, !.incPath = FALSE, !.target = a.incPath]

drawLeaf(m, prefix, index) ==
    LET id == NewNodeID(0, index)
    IN  <<NodeItem("leaf", prefix, id, LeafHashInfo(Get(m, id)), <<>>),
          NodeItem("leafdata", prefix, id, LeafDataInfo(Get(m, id)), <<>>)>>

(***************************************************************************)
(* openInnerNode: the item that opens an internal node, and the item the   *)
(* returned func prints to close it.                                       *)
(***************************************************************************)
openInnerNode(m, prefix, id) == NodeItem("open", prefix, id, Get(m, id), <<Level(id)>>)

closeInnerNode(prefix) == TextItem("close", prefix)

(***************************************************************************)
(* parseRanges validates the ranges; modifyRangeNodeInfo sets style info   *)
(* for the leaves and perfect subtree roots of each range.                 *)
(***************************************************************************)
RangeOK(lr, size) == ~(lr[2] > size) /\ ~(lr[1] > lr[2])

parseRanges(rs, size) ==
    IF Len(rs) > maxRanges
    THEN [err |-> TRUE, rng |-> <<>>]
    ELSE IF \E i \in 1..Len(rs) : ~RangeOK(rs[i], size)
         THEN [err |-> TRUE, rng |-> <<>>]
         ELSE [err |-> FALSE, rng |-> rs]

\* Faulty variant of SetLeaves: the range is taken as closed, [l, r].
RECURSIVE SetLeavesClosed(_, _, _, _)
SetLeavesClosed(m, i, r, ri) ==
    IF i <= r
    THEN SetLeavesClosed(modifyNodeInfo(m, NewNodeID(0, i),
            [Get(m, NewNodeID(0, i)) EXCEPT !.dataRangeIndices = Append(@, ri)]),
                   i + 1, r, ri)
    ELSE m
RECURSIVE SetLeaves(_, _, _, _)
SetLeaves(m, i, r, ri) ==
    IF i < r
    THEN SetLeaves(modifyNodeInfo(m, NewNodeID(0, i),
            [Get(m, NewNodeID(0, i)) EXCEPT !.dataRangeIndices = Append(@, ri)]),
                   i + 1, r, ri)
    ELSE m

RECURSIVE SetNodes(_, _, _)
SetNodes(m, nodes, ri) ==
    IF nodes = <<>> THEN m
    ELSE SetNodes(modifyNodeInfo(m, Head(nodes),
            [Get(m, Head(nodes)) EXCEPT !.rangeIndices = Append(@, ri)]),
                  Tail(nodes), ri)

\* Faulty variant of ApplyRange: the subtree roots are those of [0, r).
ApplyRangeFromZero(m, ri, lr) ==
    SetNodes(SetLeaves(m, lr[1], lr[2], ri), RangeNodes(0, lr[2]), ri)

\* One iteration of the loop over rng; ri is the 0-based position of lr.
ApplyRange(m, ri, lr) ==
    SetNodes(SetLeaves(m, lr[1], lr[2], ri), RangeNodes(lr[1], lr[2]), ri)

RECURSIVE ApplyRanges(_, _, _)
ApplyRanges(m, rng, k) ==
    IF k > Len(rng) THEN m
    ELSE ApplyRanges(ApplyRange(m, k - 1, rng[k]), rng, k + 1)

(***************************************************************************)
(* The inclusion block of main: proof marks, then inclusion path marks.    *)
(***************************************************************************)
SetProof(m, id) == modifyNodeInfo(m, id, [Get(m, id) EXCEPT !.proof = TRUE])
SetIncPath(m, id) == modifyNodeInfo(m, id, [Get(m, id) EXCEPT !.incPath = TRUE])

\* A faulty variant: skips the span even when it holds a single node.
SkipProofNodeAnySpan(i, begin, end) == i >= begin /\ i < end

\* Skip children of the ephemeral node; i is the 0-based position.
SkipProofNode(i, begin, end) == i >= begin /\ i < end /\ begin + 1 < end

RECURSIVE MarkProofNodes(_, _, _)
MarkProofNodes(m, nodes, k) ==
    IF k > Len(nodes.IDs) THEN m
    ELSE MarkProofNodes(IF SkipProofNode(k - 1, nodes.begin, nodes.end)
                        THEN m ELSE SetProof(m, nodes.IDs[k]),
                        nodes, k + 1)

\* Faulty variant of MarkEphemeralProof: the parent of the first node of
\* the span is marked instead of the parent of its last node.
MarkEphemeralProofAtSpanStart(m, nodes) ==
    IF nodes.begin + 1 < nodes.end
    THEN SetProof(m, Parent(nodes.IDs[nodes.begin + 1]))
    ELSE m

\* If the ephemeral node exists in the proof, make it a parent of the
\* biggest subtree.
MarkEphemeralProof(m, nodes) ==
    IF nodes.begin + 1 < nodes.end
    THEN SetProof(m, Parent(nodes.IDs[nodes.end]))
    ELSE m

\* for id := leafID; id.Level < height; id = id.Parent(): the nodes visited.
RECURSIVE PathNodes(_, _)
PathNodes(id, h) ==
    IF Level(id) < h THEN {id} \cup PathNodes(Parent(id), h) ELSE {}

MarkIncPath(m, leafID, h) ==
    LET path == PathNodes(leafID, h)
    IN  [k \in DOMAIN m \cup path |->
            IF k \in path THEN [Get(m, k) EXCEPT !.incPath = TRUE] ELSE m[k]]

(***************************************************************************)
(* The state after flag.Parse(): the flags hold their command line values, *)
(* nothing is marked and nothing is printed.  Lists of several ranges are  *)
(* explored with the labels unset and the largest threshold.               *)
(***************************************************************************)
Init ==
    /\ treeSize \in 0..MaxSize
    /\ leafData \in 0..MaxLeafData
    /\ inclusion \in (0 - 1)..MaxSize
    /\ megaMode \in 0..MaxMega
    /\ ranges \in RangeLists
    /\ Len(ranges) > 1 => (leafData = 0 /\ megaMode = MaxMega)
    /\ height = 0
    /\ nInfo = <<>>
    /\ pc = "main"
    /\ ids = <<>>
    /\ nroots = 0
    /\ rprefix = 0
    /\ defers = <<>>
    /\ stack = <<>>
    /\ out = <<>>

(***************************************************************************)
(* main, up to the inclusion block: height is computed from the flag,      *)
(* then --leaf_data overrides the tree size.  uint64(0)-1 is 2^64-1, whose *)
(* bit length is 64.                                                       *)
(***************************************************************************)
Height(size) == IF size = 0 THEN 64 + 1 ELSE Len64(size - 1) + 1

ParseFlags ==
    /\ pc = "main"
    /\ height' = Height(treeSize)
    /\ treeSize' = IF leafData > 0 THEN leafData ELSE treeSize
    /\ pc' = "inclusion"
    /\ UNCHANGED <<leafData, inclusion, megaMode, ranges, nInfo, ids, nroots,
                   rprefix, defers, stack, out>>

\* if *inclusion > 0 { ... }: log.Fatalf ends the process.
InclusionRequested(incl) == incl > 0

MarkInclusion ==
    /\ pc = "inclusion"
    /\ IF InclusionRequested(inclusion)
       THEN LET leafID == NewNodeID(0, inclusion)
                m1     == SetIncPath(nInfo, leafID)
                nodes  == Inclusion(inclusion, treeSize)
            IN  IF nodes.err
                THEN /\ nInfo' = m1
                     /\ pc' = "fatal"
                ELSE /\ nInfo' = MarkIncPath(
                                     MarkEphemeralProof(MarkProofNodes(m1, nodes, 1), nodes),
                                     leafID, height)
                     /\ pc' = "ranges"
       ELSE /\ nInfo' = nInfo
            /\ pc' = "ranges"
    /\ UNCHANGED <<flags, height, ids, nroots, rprefix, defers, stack, out>>

\* if len(*ranges) > 0 { modifyRangeNodeInfo() }
ModifyRanges ==
    /\ pc = "ranges"
    /\ IF Len(ranges) > 0
       THEN LET p == parseRanges(ranges, treeSize)
            IN  IF p.err
                THEN /\ nInfo' = nInfo
                     /\ pc' = "fatal"
                ELSE /\ nInfo' = ApplyRanges(nInfo, p.rng, 1)
                     /\ pc' = "preamble"
       ELSE /\ nInfo' = nInfo
            /\ pc' = "preamble"
    /\ UNCHANGED <<flags, height, ids, nroots, rprefix, defers, stack, out>>

\* fmt.Print(preamble)
PrintPreamble ==
    /\ pc = "preamble"
    /\ out' = Append(out, TextItem("preamble", 0))
    /\ pc' = "renderTree"
    /\ UNCHANGED <<flags, height, nInfo, ids, nroots, rprefix, defers, stack>>

(***************************************************************************)
(* renderTree.  A frame of the call stack is [op, prefix, id, top]: a      *)
(* pending perfectInner call, or the deferred close of an open node.       *)
(***************************************************************************)
\* Faulty variant of Call: every call marks its node as a perfect root.
CallAlwaysTop(prefix, id, top) == [op |-> "perfectInner", prefix |-> prefix, id |-> id, top |-> TRUE]

Call(prefix, id, top) == [op |-> "perfectInner", prefix |-> prefix, id |-> id, top |-> top]
Deferred(prefix, id) == [op |-> "close", prefix |-> prefix, id |-> id, top |-> FALSE]

\* Get root IDs of all perfect subtrees.
RenderTreeEnter ==
    /\ pc = "renderTree"
    /\ ids' = RangeNodes(0, treeSize)
    /\ nroots' = Len(RangeNodes(0, treeSize))
    /\ rprefix' = 0
    /\ pc' = "loop"
    /\ UNCHANGED <<flags, height, nInfo, defers, stack, out>>

\* Faulty variant of NeedsEphemeral: a block is opened for the last root too.
NeedsEphemeralEveryRoot(i, n) == i < n

\* i+1 < len(ids), for the root at 0-based position i.
NeedsEphemeral(i, n) == i + 1 < n

\* Faulty variant of PushDefer: deferred calls run in the order deferred.
PushDeferFifo(d, ds) == Append(ds, d)

\* defer: the call deferred last runs first.
PushDefer(d, ds) == <<d>> \o ds

\* One iteration of the loop over ids, up to the call of perfect.
RenderTreeIter ==
    /\ pc = "loop"
    /\ stack = <<>>
    /\ ids # <<>>
    /\ LET id    == Head(ids)
           i     == nroots - Len(ids)
           ephem == Parent(id)
           m1    == modifyNodeInfo(nInfo, ephem,
                                   [Get(nInfo, ephem) EXCEPT !.ephemeral = TRUE])
       IN  /\ IF NeedsEphemeral(i, nroots)
              THEN /\ nInfo' = m1
                   /\ out' = Append(out, openInnerNode(m1, rprefix, ephem))
                   /\ defers' = PushDefer(Deferred(rprefix, ephem), defers)
              ELSE UNCHANGED <<nInfo, out, defers>>
           /\ rprefix' = rprefix + 1
           /\ stack' = <<Call(rprefix + 1, id, TRUE)>>
           /\ ids' = Tail(ids)
    /\ UNCHANGED <<flags, height, pc, nroots>>

\* Faulty variant of IsMega: the threshold level itself is collapsed too.
IsMegaAtThreshold(id, threshold) == Level(id) >= threshold
\* id.Level > *megaMode
IsMega(id, threshold) == Level(id) > threshold

\* perfectInner renders the nodes of a perfect internal subtree.
PerfectInner ==
    /\ pc = "loop"
    /\ stack # <<>>
    /\ Head(stack).op = "perfectInner"
    /\ LET f    == Head(stack)
           id   == f.id
           m1   == modifyNodeInfo(nInfo, id,
                                  [Get(nInfo, id) EXCEPT !.perfectRoot = f.top])
           left == NewNodeID(Level(id) - 1, Index(id) * 2)
       IN  /\ nInfo' = m1
           /\ IF Level(id) = 0
              THEN /\ out' = out \o drawLeaf(m1, f.prefix, Index(id))
                   /\ stack' = Tail(stack)
              ELSE IF IsMega(id, megaMode)
                   THEN /\ out' = Append(out, openInnerNode(m1, f.prefix, id))
                                  \o perfectMega(f.prefix, id, treeSize)
                        /\ stack' = <<Deferred(f.prefix, id)>> \o Tail(stack)
                   ELSE /\ out' = Append(out, openInnerNode(m1, f.prefix, id))
                        /\ stack' = <<Call(f.prefix + 1, left, FALSE),
                                      Call(f.prefix + 1, Sibling(left), FALSE),
                                      Deferred(f.prefix, id)>> \o Tail(stack)
    /\ UNCHANGED <<flags, height, pc, ids, nroots, rprefix, defers>>

\* The deferred close of perfectInner runs as the call returns.
CloseInner ==
    /\ pc = "loop"
    /\ stack # <<>>
    /\ Head(stack).op = "close"
    /\ out' = Append(out, closeInnerNode(Head(stack).prefix))
    /\ stack' = Tail(stack)
    /\ UNCHANGED <<flags, height, nInfo, pc, ids, nroots, rprefix, defers>>

\* renderTree returns: its deferred closes run, last deferred first.
RenderTreeReturn ==
    /\ pc = "loop"
    /\ stack = <<>>
    /\ ids = <<>>
    /\ defers # <<>>
    /\ out' = Append(out, closeInnerNode(Head(defers).prefix))
    /\ defers' = Tail(defers)
    /\ UNCHANGED <<flags, height, nInfo, pc, ids, nroots, rprefix, stack>>

\* fmt.Print(postfix)
PrintPostfix ==
    /\ pc = "loop"
    /\ stack = <<>>
    /\ ids = <<>>
    /\ defers = <<>>
    /\ out' = Append(out, TextItem("postfix", 0))
    /\ pc' = "done"
    /\ UNCHANGED <<flags, height, nInfo, ids, nroots, rprefix, defers, stack>>

Next ==
    \/ ParseFlags
    \/ MarkInclusion
    \/ ModifyRanges
    \/ PrintPreamble
    \/ RenderTreeEnter
    \/ RenderTreeIter
    \/ PerfectInner
    \/ CloseInner
    \/ RenderTreeReturn
    \/ PrintPostfix

Spec == Init /\ [][Next]_vars

(***************************************************************************)
(* Vocabulary of the properties.                                           *)
(***************************************************************************)
Rendering == pc \in {"renderTree", "loop", "done"}
Annotated == pc \in {"preamble", "renderTree", "loop", "done"}

Positions(kind) == {p \in 1..Len(out) : out[p].kind = kind}

\* The leaf indices of the leaf-data nodes printed so far, in print order.
LeafDataIndices ==
    LET data == SelectSeq(out, LAMBDA it : it.kind = "leafdata")
    IN  [k \in 1..Len(data) |-> Index(data[k].id)]

\* The perfect roots of [0, treeSize) that lie above the collapse threshold.
CollapsedRoots ==
    {r \in {RangeNodes(0, treeSize)[k] : k \in 1..Len(RangeNodes(0, treeSize))} :
        Level(r) > megaMode}

Covers(id, i) == Coverage(id)[1] <= i /\ i < Coverage(id)[2]

UnderCollapsedRoot(i) == \E r \in CollapsedRoots : Covers(r, i)

\* id is a proper descendant of root.
Below(id, root) ==
    /\ id # NoID
    /\ Level(id) < Level(root)
    /\ Coverage(root)[1] <= Coverage(id)[1]
    /\ Coverage(id)[2] <= Coverage(root)[2]

\* The hidden nodes printed right after the collapsed block at position p
\* (the block is followed by the prefix, then by its hidden nodes).
HiddenAfter(p) ==
    Cardinality({q \in (p + 2)..Len(out) :
                    \A x \in (p + 2)..q : out[x].kind = "hidden"})

(***************************************************************************)
(* C1.  As claimed: for every tree size > 0 and every collapse threshold,  *)
(* the leaf-data nodes printed by renderTree are exactly the leaf indices  *)
(* 0, 1, ..., size-1, each once and in ascending order.                    *)
(***************************************************************************)
C1_AllLeavesEveryThreshold ==
    (pc = "done" /\ treeSize > 0)
        => LeafDataIndices = [k \in 1..treeSize |-> k - 1]

(***************************************************************************)
(* C1, amended.  For every tree size > 0 the leaf-data nodes printed are   *)
(* exactly the leaf indices of [0, size) that lie under no perfect root of *)
(* level > threshold, each once and in ascending order (all of 0..size-1   *)
(* when no perfect root is above the threshold); while rendering, what is  *)
(* printed so far is a prefix of that list.                                *)
(***************************************************************************)
ExpandedLeaves ==
    SelectSeq([k \in 1..treeSize |-> k - 1], LAMBDA i : ~UnderCollapsedRoot(i))

C1_LeavesOutsideCollapsedRoots ==
    Rendering =>
        /\ Len(LeafDataIndices) <= Len(ExpandedLeaves)
        /\ LeafDataIndices = SubSeq(ExpandedLeaves, 1, Len(LeafDataIndices))
        /\ pc = "done" => LeafDataIndices = ExpandedLeaves

\* A finished render of a tree with a collapsed root beside expanded leaves.
C1_Witness ==
    /\ pc = "done"
    /\ treeSize > 4
    /\ CollapsedRoots # {}
    /\ Len(LeafDataIndices) > 1

(***************************************************************************)
(* C2.  As claimed: for a target leaf index t with 0 <= t < size, after    *)
(* inclusion marking every node on the path from leaf t up to and          *)
(* including the tree root is marked incPath, and no other node is.        *)
(* Stated for runs without --leaf_data, where height is that of the tree.  *)
(***************************************************************************)
RootLevel(size) == Len64(size - 1)

C2_InclusionPathMarked ==
    (pc \in {"ranges"} \cup {"preamble", "renderTree", "loop", "done"}
        /\ leafData = 0 /\ 0 <= inclusion /\ inclusion < treeSize)
        => LET path == {NewNodeID(l, inclusion \div Pow2(l)) :
                            l \in 0..RootLevel(treeSize)}
           IN  /\ \A id \in path : Get(nInfo, id).incPath
               /\ \A id \in DOMAIN nInfo : nInfo[id].incPath => id \in path

(***************************************************************************)
(* C3.  As claimed: every perfect subtree whose root level is above the    *)
(* threshold is printed as exactly one collapsed block plus exactly        *)
(* (level - 1) hidden placeholder nodes, and none of its descendant nodes  *)
(* or leaves is printed.                                                   *)
(***************************************************************************)
CollapsedBlockOf(r) == {p \in Positions("mega") : out[p].id = r}

C3_CollapsedWithLevelMinusOneHidden ==
    pc = "done" =>
        \A r \in CollapsedRoots :
            /\ Cardinality(CollapsedBlockOf(r)) = 1
            /\ \A p \in CollapsedBlockOf(r) : HiddenAfter(p) = Level(r) - 1
            /\ \A p \in 1..Len(out) : ~Below(out[p].id, r)

(***************************************************************************)
(* C3, amended.  Every perfect root whose level is above the threshold is  *)
(* printed as its own node holding exactly one collapsed block plus        *)
(* exactly (level - 2) hidden placeholder nodes (none when level < 2),     *)
(* each closed again; none of its descendants is printed, and no block is  *)
(* printed for any other node.                                             *)
(***************************************************************************)
C3_CollapsedWithLevelMinusTwoHidden ==
    /\ \A p \in Positions("mega") : out[p].id \in CollapsedRoots
    /\ pc = "done" =>
        \A r \in CollapsedRoots :
            /\ Cardinality(CollapsedBlockOf(r)) = 1
            /\ Cardinality({p \in Positions("open") : out[p].id = r}) = 1
            /\ \A p \in CollapsedBlockOf(r) :
                  /\ HiddenAfter(p) = (IF Level(r) >= 2 THEN Level(r) - 2 ELSE 0)
                  /\ \A k \in 1..HiddenAfter(p) :
                        out[p + 1 + HiddenAfter(p) + k].kind = "hiddenClose"
            /\ \A p \in 1..Len(out) : ~Below(out[p].id, r)

\* A finished render with a collapsed root of level 3: one hidden node.
C3_Witness ==
    /\ pc = "done"
    /\ \E r \in CollapsedRoots :
          /\ Level(r) = 3
          /\ \E p \in CollapsedBlockOf(r) : HiddenAfter(p) = 1

(***************************************************************************)
(* Vocabulary of the style properties.                                     *)
(***************************************************************************)
\* The positions of out that print a node with its String().
NodePositions == {p \in 1..Len(out) : out[p].kind \in {"open", "leaf", "leafdata"}}

\* fill=..., as <<colour, n>>.
Fill(it) ==
    LET f == SelectSeq(it.attr, LAMBDA a : a[1] = "fill")
    IN  <<f[1][2], f[1][3]>>

\* The "... color=" entries of the attributes, in order.
BandEntries(it) ==
    SelectSeq(it.attr,
              LAMBDA a : a[1] \in {"left color", "right color", "middle color"})

\* The range list String() reads, and its palette.
IndicesOf(n) == IF n.leaf THEN n.dataRangeIndices ELSE n.rangeIndices
PaletteOf(n) == IF n.leaf THEN "target" ELSE "range"

ProofFill(n) == IF n.ephemeral THEN <<"proof_ephemeral", None>> ELSE <<"proof", None>>

ProofOnly(n) == n.proof /\ ~n.target /\ ~n.incPath

\* The 0-based positions of the ranges that hold leaf i, ascending.
Covering(i) ==
    SelectSeq([k \in 1..Len(ranges) |-> k - 1],
              LAMBDA ri : ranges[ri + 1][1] <= i /\ i < ranges[ri + 1][2])

Elements(seq) == {seq[k] : k \in 1..Len(seq)}

(***************************************************************************)
(* C4.  As claimed: a node marked proof that is neither target nor         *)
(* incPath always resolves to the proof fill (the ephemeral-proof fill     *)
(* when it is also ephemeral), even when it carries exactly one range      *)
(* index.                                                                  *)
(***************************************************************************)
C4_ProofOverridesRange ==
    \A p \in NodePositions :
        ProofOnly(out[p].info) => Fill(out[p]) = ProofFill(out[p].info)

(***************************************************************************)
(* C4, amended.  A node marked proof that is neither target nor incPath    *)
(* resolves to the proof fill (the ephemeral-proof fill when it is also    *)
(* ephemeral) unless it carries exactly one range index; with exactly one  *)
(* range index it resolves to that range's colour: the range-colour rule   *)
(* overrides the proof rule.                                               *)
(***************************************************************************)
C4_RangeOverridesProof ==
    \A p \in NodePositions :
        LET n == out[p].info
        IN  ProofOnly(n) =>
                Fill(out[p]) = IF Len(IndicesOf(n)) = 1
                               THEN <<PaletteOf(n), IndicesOf(n)[1]>>
                               ELSE ProofFill(n)

\* A printed proof node that carries exactly one range index, and a printed
\* proof node that carries none.
C4_Witness ==
    /\ \E p \in NodePositions :
          ProofOnly(out[p].info) /\ Len(IndicesOf(out[p].info)) = 1
    /\ \E p \in NodePositions :
          ProofOnly(out[p].info) /\ Len(IndicesOf(out[p].info)) = 0

(***************************************************************************)
(* C5.  A node resolved with incPath set gets the inclusion-path fill,     *)
(* whatever its proof, target and range marks; but the hash node of a leaf *)
(* whose dataRangeIndices is nonempty is resolved with incPath cleared, so *)
(* its fill is never the inclusion-path colour.                            *)
(***************************************************************************)
C5_IncPathFillAndLeafException ==
    \A p \in NodePositions :
        /\ out[p].info.incPath => Fill(out[p]) = <<"target_path", None>>
        /\ (out[p].kind = "leaf" /\ Len(Get(nInfo, out[p].id).dataRangeIndices) > 0)
              => Fill(out[p]) # <<"target_path", None>>
        /\ (out[p].kind \in {"leaf", "open"}
              /\ Get(nInfo, out[p].id).incPath
              /\ Len(Get(nInfo, out[p].id).dataRangeIndices) = 0)
              => Fill(out[p]) = <<"target_path", None>>

\* An internal inclusion-path node that carries a range index is printed,
\* and so is the hash node of an inclusion-path leaf that lies in a range.
C5_Witness ==
    /\ \E p \in Positions("open") :
          out[p].info.incPath /\ Len(out[p].info.rangeIndices) > 0
    /\ \E p \in Positions("leaf") :
          /\ Get(nInfo, out[p].id).incPath
          /\ Len(Get(nInfo, out[p].id).dataRangeIndices) > 0

(***************************************************************************)
(* C6.  For every valid range list, after the ranges are applied leaf i    *)
(* carries ri in its dataRangeIndices iff lo_ri <= i < hi_ri; a leaf       *)
(* outside all ranges has an empty dataRangeIndices.                       *)
(***************************************************************************)
LeavesSeen == (0..treeSize) \cup {Index(id) : id \in {x \in DOMAIN nInfo : Level(x) = 0}}

C6_LeafCarriesItsRanges ==
    Annotated =>
        \A i \in LeavesSeen :
            Elements(Get(nInfo, NewNodeID(0, i)).dataRangeIndices)
                = {ri \in 0..(Len(ranges) - 1) :
                      ranges[ri + 1][1] <= i /\ i < ranges[ri + 1][2]}

\* Several ranges are applied; one leaf of the tree lies in two of them and
\* another in none.
C6_Witness ==
    /\ Annotated
    /\ Len(ranges) > 1
    /\ \E i \in 0..(treeSize - 1) :
          Len(Get(nInfo, NewNodeID(0, i)).dataRangeIndices) = 2
    /\ \E i \in 0..(treeSize - 1) :
          Len(Get(nInfo, NewNodeID(0, i)).dataRangeIndices) = 0

(***************************************************************************)
(* C7.  A leaf-data node whose leaf is covered by k ranges, k in {2, 3},   *)
(* is printed with exactly k band entries, one per covering range in       *)
(* ascending range index, and its fill is not a single range colour.       *)
(***************************************************************************)
C7_BandedLeafData ==
    \A p \in Positions("leafdata") :
        LET cov   == Covering(Index(out[p].id))
            bands == BandEntries(out[p])
        IN  Len(cov) \in {2, 3} =>
                /\ Len(bands) = Len(cov)
                /\ \A k \in 1..Len(bands) :
                      bands[k][2] = "target" /\ bands[k][3] = cov[k]
                /\ Fill(out[p])[2] = None

\* Leaf-data nodes covered by two ranges that are not adjacent in the list
\* and by three ranges are printed.
C7_Witness ==
    /\ \E p \in Positions("leafdata") : Covering(Index(out[p].id)) = <<0, 2>>
    /\ \E p \in Positions("leafdata") : Covering(Index(out[p].id)) = <<0, 1, 2>>

(***************************************************************************)
(* C8.  As claimed: with three range entries the bands take the positions  *)
(* left, middle, right in appended order; with two, left, right.           *)
(***************************************************************************)
BandPositions(it) == [k \in 1..Len(BandEntries(it)) |-> BandEntries(it)[k][1]]

C8_ThreeBandsLeftMiddleRight ==
    \A p \in NodePositions :
        /\ Len(IndicesOf(out[p].info)) = 3
              => BandPositions(out[p]) = <<"left color", "middle color", "right color">>
        /\ Len(IndicesOf(out[p].info)) = 2
              => BandPositions(out[p]) = <<"left color", "right color">>

(***************************************************************************)
(* C8, amended.  With three range entries the bands take the positions     *)
(* left, right, middle in appended order (first entry left, second entry   *)
(* right, third entry middle); with two entries, left, right.  The k-th    *)
(* band carries the k-th appended range index.                             *)
(***************************************************************************)
C8_ThreeBandsLeftRightMiddle ==
    \A p \in NodePositions :
        LET idx == IndicesOf(out[p].info)
        IN  /\ Len(idx) = 3
                  => BandPositions(out[p]) = <<"left color", "right color", "middle color">>
            /\ Len(idx) = 2
                  => BandPositions(out[p]) = <<"left color", "right color">>
            /\ Len(idx) > 1
                  => \A k \in 1..Len(idx) : BandEntries(out[p])[k][3] = idx[k]

\* A leaf-data node and an internal node with three range entries are
\* printed.
C8_Witness ==
    /\ \E p \in Positions("leafdata") : Len(IndicesOf(out[p].info)) = 3
    /\ \E p \in Positions("open") : Len(IndicesOf(out[p].info)) = 3

(***************************************************************************)
(* C9.  As claimed: if the range list is invalid (more than 3 ranges, some *)
(* lo > hi, or some hi > size) or the inclusion target index is >= size,   *)
(* the pass fails before anything is printed: out stays empty.             *)
(***************************************************************************)
InvalidRanges ==
    \/ Len(ranges) > 3
    \/ \E k \in 1..Len(ranges) : ranges[k][1] > ranges[k][2] \/ ranges[k][2] > treeSize

TargetOutOfTree == inclusion >= 0 /\ inclusion >= treeSize

C9_InvalidConfigPrintsNothing ==
    (pc # "main" /\ (InvalidRanges \/ TargetOutOfTree))
        => (out = <<>> /\ pc \in {"inclusion", "ranges", "fatal"})

(***************************************************************************)
(* C10.  As claimed: a tree size of 0 is rejected before rendering begins  *)
(* and nothing is printed for it.                                          *)
(***************************************************************************)
C10_ZeroSizeRejected ==
    (pc # "main" /\ treeSize = 0)
        => (out = <<>> /\ pc \in {"inclusion", "ranges", "fatal"})

(***************************************************************************)
(* Vocabulary of the nesting properties.                                   *)
(***************************************************************************)
\* The brackets an item opens and closes: "[..." opens one, " ]" closes
\* one, the leaf-data line opens and closes its node and closes the leaf,
\* the collapsed block opens and closes itself.
Opens(it) == IF it.kind \in {"open", "leaf", "leafdata", "mega", "hidden"} THEN 1 ELSE 0
Closes(it) ==
    CASE it.kind \in {"close", "hiddenClose", "mega"} -> 1
      [] it.kind = "leafdata" -> 2
      [] OTHER -> 0

\* The nesting depth after every prefix of the output.
\* The nesting depths after the first n items, n >= 1.
RECURSIVE DepthsUpTo(_)
DepthsUpTo(n) ==
    IF n = 0 THEN <<>>
    ELSE LET s == DepthsUpTo(n - 1)
             before == IF n = 1 THEN 0 ELSE s[n - 1]
         IN  Append(s, before + Opens(out[n]) - Closes(out[n]))
Depths ==
    LET s == DepthsUpTo(Len(out))
    IN  [p \in 0..Len(out) |-> IF p = 0 THEN 0 ELSE s[p]]

\* Under the depths d, the item at q lies inside the block opened at p.
Inside(d, q, p) ==
    /\ p < q
    /\ \A x \in p..(q - 1) : d[x] >= d[p]

\* Under the depths d, the close at q closes the block opened at p.
ClosedBy(d, p, q) ==
    /\ Inside(d, q, p)
    /\ d[q] = d[p] - 1

\* The perfect roots of [0, treeSize), left to right.
Roots == RangeNodes(0, treeSize)

\* The positions of the ephemeral blocks opened so far, in print order.
EphemeralOpens ==
    SelectSeq([p \in 1..Len(out) |-> p],
              LAMBDA p : out[p].kind = "open" /\ out[p].info.ephemeral)

(***************************************************************************)
(* C11.  For every size > 0 whose decomposition has k perfect roots,       *)
(* renderTree opens exactly k - 1 ephemeral joining blocks: the i-th is    *)
(* parent(root_i), marked ephemeral, opened immediately before root i's    *)
(* subtree is printed; none is opened for the last root.  While rendering, *)
(* one block is open for each root already entered except the last.        *)
(***************************************************************************)
C11_EphemeralBlocksPerRoot ==
    (Rendering /\ treeSize > 0) =>
        LET eph     == EphemeralOpens
            entered == Len(Roots) - Len(ids)
        IN  /\ pc = "loop" =>
                  Len(eph) = (IF entered < Len(Roots) THEN entered ELSE Len(Roots) - 1)
            /\ pc = "done" => Len(eph) = Len(Roots) - 1
            /\ \A i \in 1..Len(eph) :
                  /\ i < Len(Roots)
                  /\ out[eph[i]].id = Parent(Roots[i])
                  /\ Get(nInfo, Parent(Roots[i])).ephemeral
                  /\ eph[i] < Len(out) =>
                        /\ out[eph[i] + 1].id = Roots[i]
                        /\ out[eph[i] + 1].kind \in {"open", "leaf"}
                        /\ ~out[eph[i] + 1].info.ephemeral
            /\ \A id \in DOMAIN nInfo :
                  nInfo[id].ephemeral =>
                      \E i \in 1..Len(eph) : id = out[eph[i]].id

\* A finished render of a tree of three perfect roots: two joining blocks.
C11_Witness ==
    /\ pc = "done"
    /\ Len(Roots) = 3
    /\ Len(EphemeralOpens) = 2

(***************************************************************************)
(* C12.  Block closing follows stack discipline.  The nesting depth never  *)
(* goes negative and is zero at the end; every opened block (joining node, *)
(* internal node, leaf, collapsed block, placeholder) is closed exactly     *)
(* once, by a close of its own kind and indentation; the ephemeral joining *)
(* blocks are closed only after the last perfect subtree has been printed, *)
(* in the reverse of their opening order.                                  *)
(***************************************************************************)
\* The kind of item that closes a block opened by an item of this kind.
CloserOf(kind) ==
    CASE kind = "open"   -> "close"
      [] kind = "leaf"   -> "leafdata"
      [] kind = "hidden" -> "hiddenClose"
      [] OTHER           -> "none"

\* The positions that close the block opened at p.
ClosersOf(d, p) == {q \in (p + 1)..Len(out) : ClosedBy(d, p, q)}

\* The last position that prints a node, a block or a placeholder.
LastContent ==
    LET c == {p \in 1..Len(out) : Opens(out[p]) > 0}
    IN  IF c = {} THEN 0 ELSE CHOOSE p \in c : \A x \in c : x <= p

C12_StackDiscipline ==
    LET d == Depths
        holds(dd) ==
            /\ \A p \in 0..Len(out) : dd[p] >= 0
            /\ (pc = "loop" /\ (ids # <<>> \/ stack # <<>>)) =>
                  dd[Len(out)] >= Len(EphemeralOpens)
            /\ pc = "done" =>
                  /\ dd[Len(out)] = 0
                  /\ \A p \in 1..Len(out) :
                        out[p].kind \in {"open", "leaf", "hidden"} =>
                            LET cs == ClosersOf(dd, p)
                            IN  /\ Cardinality(cs) = 1
                                /\ \A q \in cs :
                                      /\ out[q].kind = CloserOf(out[p].kind)
                                      /\ out[q].prefix = out[p].prefix
                                      /\ out[p].kind = "leaf" =>
                                            (q = p + 1 /\ out[q].id = out[p].id)
                  /\ \A i \in 1..Len(EphemeralOpens) :
                        \A q \in ClosersOf(dd, EphemeralOpens[i]) :
                            /\ q > LastContent
                            /\ q = Len(out) - i
                            /\ out[q].prefix = i - 1
    IN  holds(d)

\* A finished render of three perfect roots with expanded leaves: two
\* joining blocks to close in reverse order.
C12_Witness ==
    /\ pc = "done"
    /\ Len(EphemeralOpens) = 2
    /\ Positions("close") # {}
    /\ Positions("leafdata") # {}

(***************************************************************************)
(* C14.  Proof marking.  Given the inclusion proof node list and its       *)
(* ephemeral span [begin, end): with end - begin <= 1 every node of the    *)
(* list is marked proof; with end - begin > 1 the entries outside the span *)
(* are marked, no entry inside it is, and parent(nodes[end-1]) is marked   *)
(* in addition; no other node is marked proof.                             *)
(***************************************************************************)
\* The inclusion block has run to its end.
InclusionMarked == InclusionRequested(inclusion) /\ (pc = "ranges" \/ Annotated)

\* The proof node list of the requested leaf (0-based span, 1-based IDs).
ProofList == Inclusion(inclusion, treeSize)

ProofMarked == {id \in DOMAIN nInfo : nInfo[id].proof}

\* The 1-based positions of the list that lie inside the span.
InSpan(nodes) == {k \in 1..Len(nodes.IDs) : nodes.begin <= k - 1 /\ k - 1 < nodes.end}

C14_ProofMarksFollowSpan ==
    InclusionMarked =>
        LET nodes == ProofList
            all   == 1..Len(nodes.IDs)
        IN  IF nodes.end - nodes.begin <= 1
            THEN ProofMarked = {nodes.IDs[k] : k \in all}
            ELSE /\ \A k \in all \ InSpan(nodes) : nodes.IDs[k] \in ProofMarked
                 /\ \A k \in InSpan(nodes) : nodes.IDs[k] \notin ProofMarked
                 /\ Parent(nodes.IDs[nodes.end]) \in ProofMarked
                 /\ ProofMarked = {nodes.IDs[k] : k \in all \ InSpan(nodes)}
                                     \cup {Parent(nodes.IDs[nodes.end])}

\* A finished run whose proof has a span of several nodes, with marked
\* entries outside the span.
C14_Witness ==
    /\ pc = "done"
    /\ InclusionRequested(inclusion)
    /\ ProofList.end - ProofList.begin > 1
    /\ Cardinality(ProofMarked) > 1
    /\ Parent(ProofList.IDs[ProofList.end]) \in ProofMarked

(***************************************************************************)
(* C15.  Perfect root marks.  After rendering a tree of size > 0, a node   *)
(* visited by the renderer is marked perfectRoot if and only if it is one  *)
(* of the roots of the decomposition of [0, size); the nodes reached by    *)
(* recursion below a root are marked perfectRoot = false, and no ephemeral *)
(* joining node is marked perfectRoot.                                     *)
(***************************************************************************)
\* The nodes perfectInner has been called on: the printed internal nodes
\* and leaves other than the joining nodes.
Visited ==
    {out[p].id : p \in {q \in 1..Len(out) :
                          /\ out[q].kind \in {"open", "leaf"}
                          /\ ~ out[q].info.ephemeral}}

C15_PerfectRootIffDecompositionRoot ==
    (pc = "done" /\ treeSize > 0) =>
        LET roots == Elements(Roots)
        IN  /\ roots \subseteq Visited
            /\ \A id \in Visited :
                  /\ id \in DOMAIN nInfo
                  /\ nInfo[id].perfectRoot <=> id \in roots
                  /\ id \notin roots =>
                        /\ \E r \in roots : Below(id, r)
                        /\ nInfo[id].perfectRoot = FALSE
            /\ \A id \in DOMAIN nInfo :
                  /\ nInfo[id].ephemeral => ~ nInfo[id].perfectRoot
                  /\ nInfo[id].perfectRoot => id \in roots

\* A finished render of several perfect roots joined by ephemeral nodes,
\* one of the roots expanded into visited descendants.
C15_Witness ==
    /\ pc = "done"
    /\ Len(Roots) > 1
    /\ \E id \in Visited : \E r \in Elements(Roots) : Below(id, r) /\ Level(id) > 0
    /\ \E id \in DOMAIN nInfo : nInfo[id].ephemeral
    /\ \E id \in DOMAIN nInfo : nInfo[id].perfectRoot

(***************************************************************************)
(* C16.  Range marks of subtree roots.  For each accepted range            *)
(* ri = [lo, hi), a node carries ri in its rangeIndices only if its        *)
(* coverage lies within [lo, hi); the nodes carrying ri have pairwise      *)
(* disjoint coverages whose union is exactly [lo, hi).                     *)
(***************************************************************************)
\* The table entries whose rangeIndices hold the 0-based range index ri.
Carriers(ri) == {id \in DOMAIN nInfo : ri \in Elements(nInfo[id].rangeIndices)}

LeavesUnder(id) == Coverage(id)[1]..(Coverage(id)[2] - 1)

C16_RangeRootsTileTheRange ==
    (Annotated /\ Len(ranges) > 0) =>
        \A ri \in 0..(Len(ranges) - 1) :
            LET lo == ranges[ri + 1][1]
                hi == ranges[ri + 1][2]
                cs == Carriers(ri)
            IN  /\ \A id \in cs : Coverage(id)[1] >= lo /\ Coverage(id)[2] <= hi
                /\ \A a, b \in cs : a # b => LeavesUnder(a) \cap LeavesUnder(b) = {}
                /\ UNION {LeavesUnder(id) : id \in cs} = lo..(hi - 1)

\* Size 8 with the range [2, 5): the roots of [2, 4) and [4, 5) carry it,
\* the node covering [4, 8) carries no range index.
C16_Witness ==
    /\ pc = "done"
    /\ treeSize = 8
    /\ \E ri \in 0..(Len(ranges) - 1) :
          /\ ranges[ri + 1] = <<2, 5>>
          /\ Carriers(ri) = {NewNodeID(1, 1), NewNodeID(0, 4)}
    /\ Get(nInfo, NewNodeID(2, 1)).rangeIndices = <<>>

(***************************************************************************)
(* C17.  As claimed: for every emitted leaf the leaf-data node is resolved *)
(* with leaf = true, proof = false, incPath = false and target equal to    *)
(* the leaf's inclusion-path mark in the table; its fill is never the      *)
(* proof or the inclusion-path colour, and it is the target colour exactly *)
(* when the leaf is the inclusion target, ranges or not; drawLeaf leaves   *)
(* the table entry of the leaf as it was.                                  *)
(***************************************************************************)
\* The leaf named by --inclusion; the flag is -1 when no leaf is named.
IsInclusionTarget(id) == inclusion >= 0 /\ id = NewNodeID(0, inclusion)

C17_LeafDataResolvedAsTarget ==
    \A p \in Positions("leafdata") :
        LET n == out[p].info
            t == Get(nInfo, out[p].id)
        IN  /\ n.leaf /\ ~ n.proof /\ ~ n.incPath
            /\ n.target = t.incPath
            /\ Fill(out[p]) \notin {<<"proof", None>>, <<"proof_ephemeral", None>>,
                                    <<"target_path", None>>}
            /\ Fill(out[p]) = <<"target", None>> <=> IsInclusionTarget(out[p].id)
            /\ ~ t.leaf /\ ~ t.target
            /\ n.dataRangeIndices = t.dataRangeIndices
            /\ n.rangeIndices = t.rangeIndices

(***************************************************************************)
(* C18.  As claimed: when leaf labels are supplied, so that the tree size  *)
(* is overridden to the number of labels, the inclusion-path marking of a  *)
(* target leaf ascends exactly to the root of the tree of the overridden   *)
(* size: every ancestor of the target up to and including that root is     *)
(* marked incPath, and no node at a level above that root is marked.       *)
(***************************************************************************)
IncPathMarked == {id \in DOMAIN nInfo : nInfo[id].incPath}

C18_PathEndsAtOverriddenRoot ==
    (InclusionMarked /\ leafData > 0) =>
        /\ \A l \in 0..RootLevel(treeSize) :
              NewNodeID(l, inclusion \div Pow2(l)) \in IncPathMarked
        /\ \A id \in IncPathMarked : Level(id) <= RootLevel(treeSize)

(***************************************************************************)
(* C19.  For every size > 0 and target 0 < t < size with no subtree        *)
(* collapsed, the nodes marked proof are exactly the rendered siblings of  *)
(* the rendered inclusion-path nodes: for each rendered non-root node on   *)
(* the path from leaf t to the rendered root, the other child of its       *)
(* rendered parent is marked proof, and nothing else rendered is.  When    *)
(* the stand-in node parent(nodes[end-1]) is marked proof, it is one of    *)
(* the ephemeral joining nodes opened by renderTree and is filled with the *)
(* ephemeral-proof colour.                                                 *)
(***************************************************************************)
\* The positions that print a node of the tree: internal nodes, joining
\* nodes and leaf hashes.
RenderedPositions == Positions("open") \cup Positions("leaf")

\* Under the depths d, the position of the rendered parent of the node at
\* q: the last node opened before q one level higher; 0 for the root.
ParentPos(d, q) ==
    LET ps == {p \in Positions("open") : p < q /\ d[p - 1] = d[q - 1] - 1}
    IN  IF ps = {} THEN 0 ELSE CHOOSE p \in ps : \A x \in ps : x <= p

\* The rendered path from the node at q up to the rendered root.
RECURSIVE PathPositions(_, _)
PathPositions(d, q) == IF q = 0 THEN {} ELSE {q} \cup PathPositions(d, ParentPos(d, q))

\* The other rendered children of the parents of the path nodes.
SiblingPositions(d, path) ==
    {s \in RenderedPositions \ path :
        \E q \in path : ParentPos(d, q) # 0 /\ ParentPos(d, s) = ParentPos(d, q)}

C19_ProofNodesAreRenderedSiblings ==
    (pc = "done" /\ treeSize > 0 /\ 0 < inclusion /\ inclusion < treeSize
        /\ CollapsedRoots = {}) =>
        LET dd == Depths
            check(d) ==
                \A t \in {q \in Positions("leaf") : out[q].id = NewNodeID(0, inclusion)} :
                    LET path == PathPositions(d, t)
                        sibs == SiblingPositions(d, path)
                    IN  /\ Cardinality(sibs) = Cardinality(path) - 1
                        /\ ProofMarked = {out[s].id : s \in sibs}
                        /\ \A p \in RenderedPositions :
                              /\ Get(nInfo, out[p].id).proof <=> p \in sibs
                              /\ out[p].info.proof <=> p \in sibs
            nodes == ProofList
            standIn == Parent(nodes.IDs[nodes.end])
        IN  /\ Cardinality({q \in Positions("leaf") :
                               out[q].id = NewNodeID(0, inclusion)}) = 1
            /\ check(dd)
            /\ (nodes.begin + 1 < nodes.end /\ standIn \in ProofMarked) =>
                  \E p \in Positions("open") :
                      /\ out[p].id = standIn
                      /\ out[p].info.ephemeral
                      /\ p \in {EphemeralOpens[i] : i \in 1..Len(EphemeralOpens)}
                      /\ Fill(out[p]) = <<"proof_ephemeral", None>>

\* A finished render of three perfect roots, nothing collapsed, whose proof
\* holds the stand-in joining node beside ordinary proof nodes.
C19_Witness ==
    /\ pc = "done"
    /\ 0 < inclusion /\ inclusion < treeSize
    /\ CollapsedRoots = {}
    /\ Len(Roots) = 3
    /\ ProofList.begin + 1 < ProofList.end
    /\ \E p \in Positions("open") :
          /\ out[p].id = Parent(ProofList.IDs[ProofList.end])
          /\ Fill(out[p]) = <<"proof_ephemeral", None>>
    /\ \E p \in Positions("leaf") : out[p].info.proof

====
